---- MODULE Spec2Model ----
(***************************************************************************)
(* A model of SheetsManager (src/sheets_manager.py): the retry/backoff     *)
(* executor safe_update, the loaders of the tag mapping and of the         *)
(* existing-record index, and the reconciliation operation write_profile   *)
(* with its helpers apply_link_formulas and log_change, run against a      *)
(* remote workbook whose operations may fail.                              *)
(*                                                                         *)
(* Strings are TLA+ strings.  str.strip and str.lower are given by their   *)
(* values on the finite universe of strings the model uses.                *)
(***************************************************************************)
EXTENDS Integers, Sequences, FiniteSets, TLC

VARIABLES
    profiles_sheet,     \* the Profiles worksheet: rows of entered cell contents
    log_sheet,          \* the Log worksheet: rows <<nickname, change type, fields text>>
    tags_sheet,         \* the Tags worksheet (<<>> when the workbook has none)
    tags_mapping,       \* self.tags_mapping
    existing_profiles,  \* self.existing_profiles
    ready,              \* setup() has returned True
    ncalls,             \* number of write_profile calls made so far
    arg,                \* the record passed to the last write_profile call
    arg_after,          \* the same mapping when that call ended
    result,             \* what the last write_profile call gave its caller
    ops,                \* the remote operations the last call issued, in order
    su_script,          \* safe_update: what func does at its 1st, 2nd, ... invocation
    su_pc,              \* safe_update: position in the loop
    su_attempt,         \* safe_update: the loop variable attempt
    su_calls,           \* safe_update: invocations of func so far
    su_backoffs,        \* safe_update: the rate-limit sleeps taken, in seconds
    su_delays,          \* safe_update: number of SHEET_WRITE_DELAY sleeps taken
    su_result,          \* safe_update: the value returned
    target_sheet,       \* the Target worksheet (the work queue)
    MAX_PROFILES_PER_RUN, \* the configured cap of get_target_nicknames
    targets,            \* what the last get_target_nicknames call returned
    dashboard_sheet,    \* the Dashboard worksheet
    metrics,            \* the metrics passed to update_dashboard
    last_call,          \* the loader or helper called on its own, "none" before
    read_ok             \* whether the get_all_values() of that call succeeded

vars == <<profiles_sheet, log_sheet, tags_sheet, tags_mapping, existing_profiles,
          ready, ncalls, arg, arg_after, result, ops,
          target_sheet, MAX_PROFILES_PER_RUN, targets, dashboard_sheet, metrics,
          last_call, read_ok,
          su_script, su_pc, su_attempt, su_calls, su_backoffs, su_delays, su_result>>

helper_vars == <<target_sheet, MAX_PROFILES_PER_RUN, targets, dashboard_sheet, metrics,
                 last_call, read_ok>>

store_vars == <<profiles_sheet, log_sheet, tags_sheet, tags_mapping, existing_profiles,
                ready, ncalls, arg, arg_after, result, ops,
                target_sheet, MAX_PROFILES_PER_RUN, targets, dashboard_sheet, metrics,
                last_call, read_ok>>

su_vars == <<su_script, su_pc, su_attempt, su_calls, su_backoffs, su_delays, su_result>>

-----------------------------------------------------------------------------
(* Bounds *)

\* write_profile calls per run
MaxCalls == 2

\* rows below the header of a Tags worksheet
MaxTagRows == 2

\* rows below the header of a Profiles worksheet read by load_existing_profiles
MaxLoadRows == 3

\* rows below the header of a Target worksheet
MaxTargetRows == 3

-----------------------------------------------------------------------------
(* Strings *)

strip_nothing(s) == s

\* str.strip() on the strings of the model
strip(s) ==
    CASE s = " "     -> ""
      [] s = "Bob "  -> "Bob"
      [] s = " VIP"  -> "VIP"
      [] s = "Pending " -> "Pending"
      [] OTHER       -> s

\* str.lower() on the strings of the model
lower(s) ==
    CASE s = "Bob"   -> "bob"
      [] s = "Bob "  -> "bob "
      [] s = "VIP"   -> "vip"
      [] s = "Flagged" -> "flagged"
      [] s = "Pending" -> "pending"
      [] s = "Pending " -> "pending "
      [] s = "PENDING [!]" -> "pending [!]"
      [] OTHER       -> s

\* Python's None, where a dict.get without a default finds no key
None == "<None>"

\* Python truthiness of a string or None
Truthy(v) == v /= "" /\ v /= None

\* dict.get(key, default)
Get(d, key, default) == IF key \in DOMAIN d THEN d[key] ELSE default

\* ", ".join(seq)
RECURSIVE Join(_)
Join(seq) ==
    IF seq = <<>> THEN ""
    ELSE IF Len(seq) = 1 THEN seq[1]
    ELSE seq[1] \o ", " \o Join(Tail(seq))

-----------------------------------------------------------------------------
(* Retry/Backoff Executor: safe_update *)

max_retries == 3

BackoffBase == 5

\* What one invocation of func can do: return, or raise with one of these messages
ErrorMessages == {"APIError 429", "Quota exceeded", "Connection reset"}

Outcomes == {"ok"} \cup ErrorMessages

\* '429' in str(e) or 'quota' in str(e).lower()
RateLimited(msg) == msg \in {"APIError 429", "Quota exceeded"}

wait_time_flat(attempt) == BackoffBase

\* (attempt + 1) * 5
wait_time(attempt) == (attempt + 1) * BackoffBase

safe_update_pass_no_retry(outcome, attempt) ==
    IF outcome = "ok"
    THEN [returns |-> TRUE, ok |-> TRUE, backoff |-> 0]
    ELSE IF RateLimited(outcome)
    THEN [returns |-> FALSE, ok |-> FALSE, backoff |-> (attempt + 1) * BackoffBase]
    ELSE [returns |-> TRUE, ok |-> FALSE, backoff |-> 0]

\* One pass through the loop body with func behaving as `outcome`:
\* whether safe_update returns in this pass, whether func's effect took place,
\* and the rate-limit sleep taken (0 for none).
safe_update_pass(outcome, attempt) ==
    IF outcome = "ok"
    THEN [returns |-> TRUE, ok |-> TRUE, backoff |-> 0]
    ELSE IF RateLimited(outcome)
    THEN [returns |-> FALSE, ok |-> FALSE, backoff |-> wait_time(attempt)]
    ELSE [returns |-> (attempt = max_retries - 1), ok |-> FALSE, backoff |-> 0]

\* The whole loop from `attempt` on: TRUE when some invocation succeeded
\* (func's effect took place once and its result is returned), FALSE when
\* safe_update returns None.
RECURSIVE safe_update_from(_, _)
safe_update_from(script, attempt) ==
    IF attempt >= max_retries THEN FALSE
    ELSE LET p == safe_update_pass(script[attempt + 1], attempt)
         IN IF p.returns THEN p.ok ELSE safe_update_from(script, attempt + 1)

safe_update(script) == safe_update_from(script, 0)

Scripts == [1..max_retries -> Outcomes]

NoResult == [none |-> TRUE, invocation |-> 0]

SuInit ==
    /\ su_script \in Scripts
    /\ su_pc = "loop"
    /\ su_attempt = 0
    /\ su_calls = 0
    /\ su_backoffs = <<>>
    /\ su_delays = 0
    /\ su_result = NoResult

\* try: result = func(*args, **kwargs)  ... except Exception as e: ...
SuInvoke ==
    /\ su_pc = "loop"
    /\ su_attempt < max_retries
    /\ LET p == safe_update_pass(su_script[su_attempt + 1], su_attempt)
       IN /\ su_calls' = su_calls + 1
          /\ IF p.ok
             THEN /\ su_pc' = "write_delay"
                  /\ su_result' = [none |-> FALSE, invocation |-> su_calls + 1]
                  /\ su_attempt' = su_attempt
             ELSE IF p.backoff > 0
             THEN /\ su_pc' = "backoff"
                  /\ UNCHANGED <<su_result, su_attempt>>
             ELSE IF p.returns
             THEN /\ su_pc' = "done"
                  /\ su_result' = NoResult
                  /\ su_attempt' = su_attempt
             ELSE /\ su_pc' = "loop"
                  /\ su_attempt' = su_attempt + 1
                  /\ su_result' = su_result
    /\ UNCHANGED <<su_script, su_backoffs, su_delays>>

\* time.sleep(SHEET_WRITE_DELAY); return result
SuWriteDelay ==
    /\ su_pc = "write_delay"
    /\ su_delays' = su_delays + 1
    /\ su_pc' = "done"
    /\ UNCHANGED <<su_script, su_attempt, su_calls, su_backoffs, su_result>>

\* time.sleep(wait_time), then the next pass of the loop
SuBackoff ==
    /\ su_pc = "backoff"
    /\ su_backoffs' = Append(su_backoffs, wait_time(su_attempt))
    /\ su_attempt' = su_attempt + 1
    /\ su_pc' = "loop"
    /\ UNCHANGED <<su_script, su_calls, su_delays, su_result>>

\* the loop is exhausted: return None
SuExhausted ==
    /\ su_pc = "loop"
    /\ su_attempt >= max_retries
    /\ su_pc' = "done"
    /\ su_result' = NoResult
    /\ UNCHANGED <<su_script, su_attempt, su_calls, su_backoffs, su_delays>>

-----------------------------------------------------------------------------
(* The column schema (core_scraper) *)

COLUMN_ORDER == <<"IMAGE", "NICK NAME", "TAGS", "CITY", "LAST POST", "PROFILE LINK">>

LINK_COLUMNS == <<"IMAGE", "LAST POST", "PROFILE LINK">>

NCols == Len(COLUMN_ORDER)

\* COLUMN_TO_INDEX[col] + 1: the 1-based position of col in COLUMN_ORDER
ColumnPos(col) == CHOOSE i \in 1..NCols : COLUMN_ORDER[i] = col

\* clean_data(value): the literal cell text of an ordinary field
clean_data(v) == IF Truthy(v) THEN strip(v) ELSE ""

LOG_HEADERS == <<"Nickname", "ChangeType", "ChangedFields">>

-----------------------------------------------------------------------------
(* The remote workbook *)

ImageFormula(v) == "=IMAGE(\"" \o v \o "\", 4, 50, 50)"

HyperlinkFormula(v, label) == "=HYPERLINK(\"" \o v \o "\", \"" \o label \o "\")"

Urls == {"u1", "u2"}

ImageFormulas == {ImageFormula(u) : u \in Urls}

PostFormulas == {HyperlinkFormula(u, "Post") : u \in Urls}

ProfileFormulas == {HyperlinkFormula(u, "Profile") : u \in Urls}

\* What the sheet shows for an entered cell content
Display(cell) ==
    IF cell \in ImageFormulas THEN ""
    ELSE IF cell \in PostFormulas THEN "Post"
    ELSE IF cell \in ProfileFormulas THEN "Profile"
    ELSE cell

Max(S) == CHOOSE x \in S : \A y \in S : y <= x

Width(sheet) == IF sheet = <<>> THEN 0 ELSE Max({Len(sheet[i]) : i \in 1..Len(sheet)})

\* worksheet.get_all_values(): the displayed values, every row filled to the
\* width of the widest row
get_all_values(sheet) ==
    [r \in 1..Len(sheet) |->
        [c \in 1..Width(sheet) |->
            IF c <= Len(sheet[r]) THEN Display(sheet[r][c]) ELSE ""]]

\* worksheet.append_row(values)
append_row(sheet, values) == Append(sheet, values)

\* worksheet.update(values=[[v]], range_name=<cell at row r, column c>)
update_cell(sheet, r, c, v) ==
    IF r < 1 \/ r > Len(sheet) THEN sheet
    ELSE [sheet EXCEPT ![r] =
            [k \in 1..Max({Len(sheet[r]), c}) |->
                IF k = c THEN v ELSE IF k <= Len(sheet[r]) THEN sheet[r][k] ELSE ""]]

-----------------------------------------------------------------------------
(* Tag Resolver *)

tags_cell_overwrite(mapping, all_data, col_idx, row_idx) ==
    LET tag_name == all_data[1][col_idx]
        nickname == strip(all_data[row_idx][col_idx])
        key      == lower(nickname)
    IN IF ~Truthy(tag_name) \/ ~Truthy(strip(tag_name)) THEN mapping
       ELSE IF col_idx > Len(all_data[row_idx]) THEN mapping
       ELSE IF nickname = "" THEN mapping
       ELSE IF key \in DOMAIN mapping
            THEN [mapping EXCEPT ![key] = strip(tag_name)]
            ELSE (key :> strip(tag_name)) @@ mapping

\* the body of the two loops of load_tags_mapping, for the cell at
\* (row_idx, col_idx), both 1-based here
tags_cell(mapping, all_data, col_idx, row_idx) ==
    LET tag_name == all_data[1][col_idx]
        nickname == strip(all_data[row_idx][col_idx])
        key      == lower(nickname)
    IN IF ~Truthy(tag_name) \/ ~Truthy(strip(tag_name)) THEN mapping
       ELSE IF col_idx > Len(all_data[row_idx]) THEN mapping
       ELSE IF nickname = "" THEN mapping
       ELSE IF key \in DOMAIN mapping
            THEN [mapping EXCEPT ![key] = @ \o ", " \o strip(tag_name)]
            ELSE (key :> strip(tag_name)) @@ mapping

RECURSIVE tags_loop(_, _, _, _)
tags_loop(mapping, all_data, col_idx, row_idx) ==
    IF col_idx > Len(all_data[1]) THEN mapping
    ELSE IF row_idx > Len(all_data) THEN tags_loop(mapping, all_data, col_idx + 1, 2)
    ELSE tags_loop(tags_cell(mapping, all_data, col_idx, row_idx),
                   all_data, col_idx, row_idx + 1)

EmptyMap == [k \in {} |-> ""]

load_tags_mapping(mapping, all_data) ==
    IF Len(all_data) < 2 THEN mapping
    ELSE tags_loop(mapping, all_data, 1, 2)

get_tags_exact_case(mapping, nickname) == Get(mapping, nickname, "")

get_tags_for_nickname(mapping, nickname) == Get(mapping, lower(nickname), "")

-----------------------------------------------------------------------------
(* Existing-Record Index *)

RECURSIVE load_rows_first_wins(_, _, _)
load_rows_first_wins(index, rows, k) ==
    IF k > Len(rows) THEN index
    ELSE LET row == rows[k]
             nickname == IF Len(row) > 1 THEN lower(strip(row[2])) ELSE ""
         IN IF Len(row) > 1 /\ nickname /= ""
            THEN load_rows_first_wins(index @@ (nickname :> [row |-> k + 1, data |-> row]),
                                      rows, k + 1)
            ELSE load_rows_first_wins(index, rows, k + 1)

\* the loop of load_existing_profiles over rows[k..], rows = all values below
\* the header; rows[k] is sheet row k + 1
RECURSIVE load_rows(_, _, _)
load_rows(index, rows, k) ==
    IF k > Len(rows) THEN index
    ELSE LET row == rows[k]
             nickname == IF Len(row) > 1 THEN lower(strip(row[2])) ELSE ""
         IN IF Len(row) > 1 /\ nickname /= ""
            THEN load_rows((nickname :> [row |-> k + 1, data |-> row]) @@ index, rows, k + 1)
            ELSE load_rows(index, rows, k + 1)

load_existing_profiles(values) ==
    load_rows(EmptyMap, IF values = <<>> THEN <<>> ELSE Tail(values), 1)

-----------------------------------------------------------------------------
(* Target Selection *)

\* the status markers of get_target_nicknames; "[!]" stands for the one
\* character U+1F6A8 of the second marker
PendingMarkers == {"pending", "pending [!]"}

Min(a, b) == IF a < b THEN a ELSE b

\* the loop of get_target_nicknames over rows[k..], rows = all values below
\* the header; rows[k] is sheet row k + 1
RECURSIVE collect_targets(_, _)
collect_targets(rows, k) ==
    IF k > Len(rows) THEN <<>>
    ELSE LET row == rows[k]
             nickname == IF Len(row) > 0 THEN strip(row[1]) ELSE ""
             status == IF Len(row) > 1 THEN strip(row[2]) ELSE ""
             source == IF Len(row) > 3 THEN strip(row[4]) ELSE "Manual"
         IN (IF Len(row) = 0 THEN <<>>
             ELSE IF nickname /= "" /\ lower(status) \in PendingMarkers
                  THEN <<[nickname |-> nickname, row |-> k + 1, source |-> source]>>
                  ELSE <<>>)
            \o collect_targets(rows, k + 1)

cap_targets_unguarded(found, cap) == SubSeq(found, 1, Min(cap, Len(found)))

\* if MAX_PROFILES_PER_RUN > 0: targets = targets[:MAX_PROFILES_PER_RUN]
cap_targets(found, cap) ==
    IF cap > 0 THEN SubSeq(found, 1, Min(cap, Len(found))) ELSE found

get_target_nicknames(values, cap) ==
    cap_targets(collect_targets(IF values = <<>> THEN <<>> ELSE Tail(values), 1), cap)

-----------------------------------------------------------------------------
(* Reconciliation Engine: write_profile *)

\* a remote operation issued: its worksheet, its name, whether it went through
\* safe_update ("safe_update") or straight to the worksheet ("direct"), and
\* whether it took effect
Op(sheet, op, via, ok) == [sheet |-> sheet, op |-> op, via |-> via, ok |-> ok]

\* the projected row: one literal cell per column of COLUMN_ORDER
row_values_of(data) ==
    [i \in 1..NCols |->
        LET col == COLUMN_ORDER[i]
        IN IF col = "IMAGE" THEN ""
           ELSE IF col = "PROFILE LINK"
                THEN (IF Truthy(Get(data, col, None)) THEN "Profile" ELSE "")
           ELSE IF col = "LAST POST"
                THEN (IF Truthy(Get(data, col, None)) THEN "Post" ELSE "")
           ELSE clean_data(Get(data, col, ""))]

before_snapshot_off_by_one(existing) ==
    [i \in 1..NCols |-> IF i < Len(existing.data) THEN existing.data[i + 1] ELSE ""]

\* before_snapshot, as the sequence of its values in column order
before_snapshot(existing) ==
    [i \in 1..NCols |-> IF i <= Len(existing.data) THEN existing.data[i] ELSE ""]

\* v or ""
OrEmpty(v) == IF Truthy(v) THEN v ELSE ""

RECURSIVE changed_from(_, _, _)
changed_from(before, row_values, i) ==
    IF i > NCols THEN <<>>
    ELSE IF OrEmpty(before[i]) /= OrEmpty(row_values[i])
         THEN <<i>> \o changed_from(before, row_values, i + 1)
         ELSE changed_from(before, row_values, i + 1)

\* changed_indices (1-based), in column order
changed_indices(before, row_values) == changed_from(before, row_values, 1)

\* [COLUMN_ORDER[idx] for idx in changed_indices]
fields_of(indices) == [k \in 1..Len(indices) |-> COLUMN_ORDER[indices[k]]]

\* the formula apply_link_formulas writes for a link column
link_formula(col_name, value) ==
    IF col_name = "IMAGE" THEN ImageFormula(value)
    ELSE IF col_name = "LAST POST" THEN HyperlinkFormula(value, "Post")
    ELSE HyperlinkFormula(value, "Profile")

\* apply_link_formulas(row_idx, data) from the k-th link column on; st holds
\* the sheet and the operations issued so far
RECURSIVE apply_link_formulas_from(_, _, _, _, _)
apply_link_formulas_from(st, row_idx, data, link_env, k) ==
    IF k > Len(LINK_COLUMNS) THEN st
    ELSE LET col_name == LINK_COLUMNS[k]
             value == Get(data, col_name, None)
             ok == safe_update(link_env[col_name])
         IN IF ~Truthy(value)
            THEN apply_link_formulas_from(st, row_idx, data, link_env, k + 1)
            ELSE apply_link_formulas_from(
                    [sheet |-> IF ok
                               THEN update_cell(st.sheet, row_idx, ColumnPos(col_name),
                                                link_formula(col_name, value))
                               ELSE st.sheet,
                     ops |-> Append(st.ops, Op("Profiles", "update", "safe_update", ok))],
                    row_idx, data, link_env, k + 1)

apply_link_formulas(st, row_idx, data, link_env) ==
    apply_link_formulas_from(st, row_idx, data, link_env, 1)

\* log_change(nickname, change_type, changed_fields, ...): st holds the log
\* sheet and the operations issued so far
log_change(st, nickname, change_type, changed_fields, log_script) ==
    LET fields_text == IF changed_fields /= <<>> THEN Join(changed_fields) ELSE "-"
        ok == safe_update(log_script)
    IN [log |-> IF ok THEN append_row(st.log, <<nickname, change_type, fields_text>>)
                ELSE st.log,
        ops |-> Append(st.ops, Op("Log", "append_row", "safe_update", ok))]

\* a call that ended with an exception reaching the caller returns nothing
Raised == [status |-> "raised", changed_fields |-> <<>>]

append_and_link_count_first(sheet, row_values, data, env) ==
    LET append_ok == safe_update(env.append)
        sheet1 == IF append_ok THEN append_row(sheet, row_values) ELSE sheet
        ops1 == <<Op("Profiles", "append_row", "safe_update", append_ok),
                  Op("Profiles", "get_all_values", "direct", env.read)>>
        new_row == Len(get_all_values(sheet))
    IN IF ~env.read
       THEN [raised |-> TRUE, sheet |-> sheet1, ops |-> ops1, new_row |-> 0]
       ELSE LET st == apply_link_formulas([sheet |-> sheet1, ops |-> ops1],
                                          new_row, data, env.link)
            IN [raised |-> FALSE, sheet |-> st.sheet, ops |-> st.ops, new_row |-> new_row]

\* The append of the projected row, the read of the row count and the link
\* formulas, common to the NEW and the UPDATED branch
\* (lines 425-427 and 438-440).
append_and_link(sheet, row_values, data, env) ==
    LET append_ok == safe_update(env.append)
        sheet1 == IF append_ok THEN append_row(sheet, row_values) ELSE sheet
        ops1 == <<Op("Profiles", "append_row", "safe_update", append_ok),
                  Op("Profiles", "get_all_values", "direct", env.read)>>
        new_row == Len(get_all_values(sheet1))
    IN IF ~env.read
       THEN [raised |-> TRUE, sheet |-> sheet1, ops |-> ops1, new_row |-> 0]
       ELSE LET st == apply_link_formulas([sheet |-> sheet1, ops |-> ops1],
                                          new_row, data, env.link)
            IN [raised |-> FALSE, sheet |-> st.sheet, ops |-> st.ops, new_row |-> new_row]

\* write_profile(data) in the state (sheet, log, index, tags), the remote
\* operations behaving as env says; gives the state after the call, the
\* result and the operations issued
write_profile(data, env, sheet, log, index, tags) ==
    LET nickname == strip(Get(data, "NICK NAME", ""))
        data1 == ("TAGS" :> get_tags_for_nickname(tags, nickname)) @@ data
        row_values == row_values_of(data1)
        nickname_lower == lower(nickname)
    IN IF nickname = ""
       THEN [sheet |-> sheet, log |-> log, index |-> index, data |-> data, ops |-> <<>>,
             result |-> [status |-> "error", changed_fields |-> <<>>]]
       ELSE IF nickname_lower \in DOMAIN index
       THEN LET before == before_snapshot(index[nickname_lower])
                indices == changed_indices(before, row_values)
            IN IF indices = <<>>
               THEN LET lg == log_change([log |-> log, ops |-> <<>>], nickname,
                                         "UNCHANGED", <<>>, env.log)
                    IN [sheet |-> sheet, log |-> lg.log, index |-> index, data |-> data1,
                        ops |-> lg.ops,
                        result |-> [status |-> "unchanged", changed_fields |-> <<>>]]
               ELSE LET a == append_and_link(sheet, row_values, data1, env)
                        changed_fields == fields_of(indices)
                        lg == log_change([log |-> log, ops |-> a.ops], nickname,
                                         "UPDATED", changed_fields, env.log)
                    IN IF a.raised
                       THEN [sheet |-> a.sheet, log |-> log, index |-> index,
                             data |-> data1, ops |-> a.ops, result |-> Raised]
                       ELSE [sheet |-> a.sheet, log |-> lg.log,
                             index |-> (nickname_lower :>
                                          [row |-> a.new_row, data |-> row_values]) @@ index,
                             data |-> data1, ops |-> lg.ops,
                             result |-> [status |-> "updated",
                                         changed_fields |-> changed_fields]]
       ELSE LET a == append_and_link(sheet, row_values, data1, env)
                changed_fields == COLUMN_ORDER
                lg == log_change([log |-> log, ops |-> a.ops], nickname,
                                 "NEW", changed_fields, env.log)
            IN IF a.raised
               THEN [sheet |-> a.sheet, log |-> log, index |-> index,
                     data |-> data1, ops |-> a.ops, result |-> Raised]
               ELSE [sheet |-> a.sheet, log |-> lg.log,
                     index |-> (nickname_lower :>
                                  [row |-> a.new_row, data |-> row_values]) @@ index,
                     data |-> data1, ops |-> lg.ops,
                     result |-> [status |-> "new", changed_fields |-> changed_fields]]

-----------------------------------------------------------------------------
(* Run Metrics Aggregator: update_dashboard *)

expected_headers ==
    <<"Run#", "Timestamp", "Profiles", "Success", "Failed", "New", "Updated", "Unchanged">>

header_mismatch_only_empty(existing_data) == existing_data = <<>>

\* not existing_data or existing_data[0] != expected_headers
header_mismatch(existing_data) ==
    existing_data = <<>> \/ existing_data[1] /= expected_headers

\* worksheet.clear()
clear(sheet) == <<>>

\* the row of the run; a count is written as the text the cell shows
row_data(m) ==
    << Get(m, "Run Number", ""),
       Get(m, "Last Run", ""),
       Get(m, "Profiles Processed", "0"),
       Get(m, "Success", "0"),
       Get(m, "Failed", "0"),
       Get(m, "New Profiles", "0"),
       Get(m, "Updated Profiles", "0"),
       Get(m, "Unchanged Profiles", "0") >>

\* update_dashboard(metrics) on a session whose dashboard_sheet is set; env
\* says whether the read succeeds and what each safe_update'd operation does
update_dashboard(sheet, m, env) ==
    IF ~env.read
    THEN [sheet |-> sheet, ops |-> <<Op("Dashboard", "get_all_values", "direct", FALSE)>>]
    ELSE LET mismatch == header_mismatch(get_all_values(sheet))
             cleared  == safe_update(env.clear)
             headed   == safe_update(env.header)
             formatted == safe_update(env.format)
             appended == safe_update(env.row)
             sheet1 == IF mismatch /\ cleared THEN clear(sheet) ELSE sheet
             sheet2 == IF mismatch /\ headed THEN append_row(sheet1, expected_headers)
                       ELSE sheet1
             sheet3 == IF appended THEN append_row(sheet2, row_data(m)) ELSE sheet2
         IN [sheet |-> sheet3,
             ops |-> <<Op("Dashboard", "get_all_values", "direct", TRUE)>>
                     \o (IF mismatch
                         THEN <<Op("Dashboard", "clear", "safe_update", cleared),
                                Op("Dashboard", "append_row", "safe_update", headed),
                                Op("Dashboard", "format", "safe_update", formatted)>>
                         ELSE <<>>)
                     \o <<Op("Dashboard", "append_row", "safe_update", appended)>>]

-----------------------------------------------------------------------------
(* Inputs *)

\* the link fields a scraped record can carry: all three, or an empty image
\* and a post link only
AllLinks == ("IMAGE" :> "u1") @@ ("LAST POST" :> "u1") @@ ("PROFILE LINK" :> "u2")

PostLink == ("IMAGE" :> "") @@ ("LAST POST" :> "u2")

Rec(nick, city) == ("NICK NAME" :> nick) @@ ("CITY" :> city)

\* the records passed to write_profile: two identities in several spellings
\* and states, a whitespace-only and an empty nickname and a record with no
\* NICK NAME key
Records ==
    { Rec("bob", "lhr"),
      Rec("bob", "khi") @@ PostLink,
      Rec("Bob ", "lhr") @@ AllLinks,
      Rec("amy", "khi"),
      Rec(" ", "lhr"),
      Rec("", "lhr"),
      ("CITY" :> "lhr") }

OkScript == [i \in 1..max_retries |-> "ok"]

RetryScript == [i \in 1..max_retries |->
                  IF i = max_retries THEN "ok"
                  ELSE IF i = 1 THEN "Quota exceeded" ELSE "Connection reset"]

FailScript == [i \in 1..max_retries |->
                  IF i = 2 THEN "APIError 429" ELSE "Connection reset"]

LinkSet == {LINK_COLUMNS[k] : k \in 1..Len(LINK_COLUMNS)}

\* the link updates of one call: all succeed, all fail, or only the update of
\* LAST POST fails
LinkEnvs ==
    { [c \in LinkSet |-> OkScript],
      [c \in LinkSet |-> FailScript],
      [c \in LinkSet |-> IF c = "LAST POST" THEN FailScript ELSE OkScript] }

AllOk == [c \in LinkSet |-> OkScript]

\* how the remote operations of one write_profile call behave: the scripts of
\* the append, of each link update and of the log append, and whether the read
\* of the row count succeeds.  An operation the call cannot reach (no nickname,
\* no such link in the record, a read that raised before it) is left at "ok".
Envs(data) ==
    { e \in [append : {OkScript, RetryScript, FailScript},
             read   : BOOLEAN,
             link   : LinkEnvs,
             log    : {OkScript, FailScript}] :
        /\ \A c \in LinkSet : ~Truthy(Get(data, c, None)) => e.link[c] = OkScript
        /\ ~e.read => e.link = AllOk /\ e.log = OkScript
        /\ strip(Get(data, "NICK NAME", "")) = ""
              => e.append = OkScript /\ e.read /\ e.log = OkScript }

\* the Profiles worksheet before the run: absent or empty, header only, one
\* row of an earlier run, a narrower sheet of an earlier schema
InitialProfiles ==
    { <<>>,
      <<COLUMN_ORDER>>,
      <<COLUMN_ORDER, <<"", "Bob", "", "lhr", "", "">> >>,
      << <<"IMAGE", "NICK NAME", "TAGS", "CITY">>, <<"", "amy", "", "khi">> >> }

\* the Tags worksheet before the run: absent, or a wide table
InitialTags ==
    { <<>>,
      << <<"VIP", "Flagged">>, <<"Bob", "bob">>, <<"amy", "">> >> }

NoCall == [status |-> "none", changed_fields |-> <<>>]

-----------------------------------------------------------------------------
(* The run: construction, setup, then write_profile record after record *)

StoreInit ==
    /\ profiles_sheet \in InitialProfiles
    /\ tags_sheet \in InitialTags
    /\ log_sheet = <<>>
    /\ tags_mapping = EmptyMap
    /\ existing_profiles = EmptyMap
    /\ ready = FALSE
    /\ ncalls = 0
    /\ arg = EmptyMap
    /\ arg_after = EmptyMap
    /\ result = NoCall
    /\ ops = <<>>

\* no loader or helper has been called on its own
HelperIdle ==
    /\ target_sheet = <<>>
    /\ MAX_PROFILES_PER_RUN = 0
    /\ targets = <<>>
    /\ dashboard_sheet = <<>>
    /\ metrics = EmptyMap
    /\ last_call = "none"
    /\ read_ok = TRUE

SuIdle ==
    /\ su_script = OkScript
    /\ su_pc = "idle"
    /\ su_attempt = 0
    /\ su_calls = 0
    /\ su_backoffs = <<>>
    /\ su_delays = 0
    /\ su_result = NoResult

Init == StoreInit /\ HelperIdle /\ SuIdle

\* setup(), on the path that returns True.  load_ok: whether the read in
\* load_existing_profiles succeeds (its exception is caught and logged).
Setup ==
    /\ ~ready
    /\ \E load_ok \in BOOLEAN :
        LET empty == get_all_values(profiles_sheet) = <<>>
            sheet1 == IF empty THEN append_row(profiles_sheet, COLUMN_ORDER)
                      ELSE profiles_sheet
            created == log_sheet = <<>>
        IN /\ profiles_sheet' = sheet1
           /\ tags_mapping' = IF tags_sheet = <<>> THEN tags_mapping
                              ELSE load_tags_mapping(tags_mapping, tags_sheet)
           /\ log_sheet' = IF created THEN append_row(log_sheet, LOG_HEADERS)
                           ELSE log_sheet
           /\ existing_profiles' = IF load_ok
                                   THEN load_existing_profiles(get_all_values(sheet1))
                                   ELSE EmptyMap
           /\ ops' = (IF empty THEN <<Op("Profiles", "append_row", "direct", TRUE)>>
                      ELSE <<>>)
                     \o (IF created THEN <<Op("Log", "append_row", "direct", TRUE)>>
                         ELSE <<>>)
                     \o <<Op("Profiles", "get_all_values", "direct", load_ok),
                          Op("Profiles", "format", "safe_update", TRUE),
                          Op("Profiles", "format", "safe_update", TRUE)>>
    /\ ready' = TRUE
    /\ UNCHANGED <<tags_sheet, ncalls, arg, arg_after, result>>
    /\ UNCHANGED helper_vars
    /\ UNCHANGED su_vars

\* one call of write_profile by the batch loop
WriteProfile ==
    /\ ready
    /\ ncalls < MaxCalls
    /\ \E data \in Records : \E env \in Envs(data) :
        \E r \in {write_profile(data, env, profiles_sheet, log_sheet,
                                existing_profiles, tags_mapping)} :
           /\ profiles_sheet' = r.sheet
           /\ log_sheet' = r.log
           /\ existing_profiles' = r.index
           /\ arg' = data
           /\ arg_after' = r.data
           /\ result' = r.result
           /\ ops' = r.ops
    /\ ncalls' = ncalls + 1
    /\ UNCHANGED <<tags_sheet, tags_mapping, ready>>
    /\ UNCHANGED helper_vars
    /\ UNCHANGED su_vars

Next == Setup \/ WriteProfile

Spec == Init /\ [][Next]_vars

-----------------------------------------------------------------------------
(* safe_update on its own, for every behaviour of the wrapped operation *)

StoreIdle ==
    /\ profiles_sheet = <<>>
    /\ tags_sheet = <<>>
    /\ log_sheet = <<>>
    /\ tags_mapping = EmptyMap
    /\ existing_profiles = EmptyMap
    /\ ready = FALSE
    /\ ncalls = 0
    /\ arg = EmptyMap
    /\ arg_after = EmptyMap
    /\ result = NoCall
    /\ ops = <<>>

InitRetry == StoreIdle /\ HelperIdle /\ SuInit

NextRetry ==
    \/ SuInvoke /\ UNCHANGED store_vars
    \/ SuWriteDelay /\ UNCHANGED store_vars
    \/ SuBackoff /\ UNCHANGED store_vars
    \/ SuExhausted /\ UNCHANGED store_vars

\* the loop is sequential code: a step that can be taken is taken
SpecRetry == InitRetry /\ [][NextRetry]_vars /\ WF_vars(NextRetry)

-----------------------------------------------------------------------------
(* load_tags_mapping on its own, for every small Tags worksheet *)

\* the header cells and the nickname cells of a Tags worksheet
TagNames == {"VIP", " VIP", "Flagged", ""}

TagCells == {"", "Bob ", "bob", "amy"}

\* the Tags worksheets: empty, or a header of two tag columns and up to
\* MaxTagRows rows of nicknames
TagTables ==
    {<<>>} \cup
    { <<h>> \o rows : h \in {<<a, b>> : a \in TagNames, b \in TagNames},
                      rows \in UNION {[1..n -> {<<a, b>> : a \in TagCells, b \in TagCells}]
                                        : n \in 0..MaxTagRows} }

InitTags ==
    /\ tags_sheet \in TagTables
    /\ profiles_sheet = <<>>
    /\ log_sheet = <<>>
    /\ tags_mapping = EmptyMap
    /\ existing_profiles = EmptyMap
    /\ ready = FALSE
    /\ ncalls = 0
    /\ arg = EmptyMap
    /\ arg_after = EmptyMap
    /\ result = NoCall
    /\ ops = <<>>
    /\ HelperIdle
    /\ SuIdle

\* load_tags_mapping(); ok: whether tags_sheet.get_all_values() succeeds (its
\* exception is caught and logged)
LoadTagsMapping ==
    /\ last_call = "none"
    /\ \E ok \in BOOLEAN :
        /\ read_ok' = ok
        /\ tags_mapping' = IF ok
                            THEN load_tags_mapping(tags_mapping, get_all_values(tags_sheet))
                            ELSE tags_mapping
    /\ last_call' = "load_tags_mapping"
    /\ UNCHANGED <<profiles_sheet, log_sheet, tags_sheet, existing_profiles,
                   ready, ncalls, arg, arg_after, result, ops>>
    /\ UNCHANGED <<target_sheet, MAX_PROFILES_PER_RUN, targets, dashboard_sheet, metrics>>
    /\ UNCHANGED su_vars

NextTags == LoadTagsMapping

SpecTags == InitTags /\ [][NextTags]_vars

-----------------------------------------------------------------------------
(* load_existing_profiles on its own, for every small Profiles worksheet *)

\* the rows found below the header: two spellings of one identity, another
\* identity in a short row and in a row with link formulas, a blank nickname,
\* a row of one cell
ProfileRows ==
    { <<"", "Bob ", "", "lhr">>,
      <<"", "bob", "", "khi">>,
      <<"", "amy">>,
      <<ImageFormula("u1"), "amy", "", "khi", HyperlinkFormula("u1", "Post")>>,
      <<"", " ">>,
      <<"x">> }

\* the Profiles worksheets: empty, or a header (of the schema, or of a sheet
\* of one column) and up to MaxLoadRows rows
ProfileTables ==
    {<<>>} \cup
    { <<h>> \o rows : h \in {COLUMN_ORDER, <<"IMAGE">>},
                      rows \in UNION {[1..n -> ProfileRows] : n \in 0..MaxLoadRows} }

InitLoad ==
    /\ profiles_sheet \in ProfileTables
    /\ tags_sheet = <<>>
    /\ log_sheet = <<>>
    /\ tags_mapping = EmptyMap
    /\ existing_profiles = EmptyMap
    /\ ready = FALSE
    /\ ncalls = 0
    /\ arg = EmptyMap
    /\ arg_after = EmptyMap
    /\ result = NoCall
    /\ ops = <<>>
    /\ HelperIdle
    /\ SuIdle

\* load_existing_profiles(); ok: whether profiles_sheet.get_all_values()
\* succeeds (its exception is caught and logged, after the index was reset)
LoadExistingProfiles ==
    /\ last_call = "none"
    /\ \E ok \in BOOLEAN :
        /\ read_ok' = ok
        /\ existing_profiles' = IF ok
                                 THEN load_existing_profiles(get_all_values(profiles_sheet))
                                 ELSE EmptyMap
    /\ last_call' = "load_existing_profiles"
    /\ UNCHANGED <<profiles_sheet, log_sheet, tags_sheet, tags_mapping,
                   ready, ncalls, arg, arg_after, result, ops>>
    /\ UNCHANGED <<target_sheet, MAX_PROFILES_PER_RUN, targets, dashboard_sheet, metrics>>
    /\ UNCHANGED su_vars

NextLoad == LoadExistingProfiles

SpecLoad == InitLoad /\ [][NextLoad]_vars

-----------------------------------------------------------------------------
(* get_target_nicknames on its own, for every small Target worksheet *)

\* the rows found below the header: pending rows in several spellings, a
\* finished row, a blank nickname
TargetRows ==
    { <<"bob", "pending">>,
      <<"Bob ", "Pending ", "", "Online">>,
      <<"amy", "done">>,
      <<" ", "pending">>,
      <<"amy", "PENDING [!]">> }

\* the Target worksheets: empty, or a header (of the work queue, or of a
\* sheet of one column) and up to MaxTargetRows rows
TargetTables ==
    {<<>>} \cup
    { <<h>> \o rows : h \in {<<"Nickname", "Status", "Remarks", "Source">>, <<"Nickname">>},
                      rows \in UNION {[1..n -> TargetRows] : n \in 0..MaxTargetRows} }

\* the configured caps: negative, zero, and two positive ones
Caps == {-1, 0, 1, 2}

InitTargets ==
    /\ StoreIdle
    /\ target_sheet \in TargetTables
    /\ MAX_PROFILES_PER_RUN \in Caps
    /\ targets = <<>>
    /\ dashboard_sheet = <<>>
    /\ metrics = EmptyMap
    /\ last_call = "none"
    /\ read_ok = TRUE
    /\ SuIdle

\* get_target_nicknames(); ok: whether target_sheet.get_all_values() succeeds
\* (its exception is caught and [] returned)
GetTargetNicknames ==
    /\ last_call = "none"
    /\ \E ok \in BOOLEAN :
        /\ read_ok' = ok
        /\ targets' = IF ok
                       THEN get_target_nicknames(get_all_values(target_sheet),
                                                 MAX_PROFILES_PER_RUN)
                       ELSE <<>>
    /\ last_call' = "get_target_nicknames"
    /\ UNCHANGED <<profiles_sheet, log_sheet, tags_sheet, tags_mapping, existing_profiles,
                   ready, ncalls, arg, arg_after, result, ops>>
    /\ UNCHANGED <<target_sheet, MAX_PROFILES_PER_RUN, dashboard_sheet, metrics>>
    /\ UNCHANGED su_vars

NextTargets == GetTargetNicknames

SpecTargets == InitTargets /\ [][NextTargets]_vars

-----------------------------------------------------------------------------
(* update_dashboard on its own, at the end of a run *)

\* the Dashboard worksheet found: new and empty, header only, header and the
\* row of an earlier run, a sheet of another layout, and a sheet whose row is
\* wider than the header
InitialDashboards ==
    { <<>>,
      <<expected_headers>>,
      <<expected_headers, <<"1", "t1", "2", "2", "0", "1", "1", "0">> >>,
      << <<"Run", "Date">>, <<"1", "t0">> >>,
      <<expected_headers, <<"1", "t1", "2", "2", "0", "1", "1", "0", "note">> >> }

\* the metrics of the run: complete, with keys missing, empty
MetricsOfRun ==
    { ("Run Number" :> "2") @@ ("Last Run" :> "t2") @@ ("Profiles Processed" :> "3")
        @@ ("Success" :> "2") @@ ("Failed" :> "1") @@ ("New Profiles" :> "1")
        @@ ("Updated Profiles" :> "1") @@ ("Unchanged Profiles" :> "0"),
      ("Run Number" :> "3") @@ ("Success" :> "1"),
      EmptyMap }

\* how the remote operations of one update_dashboard call behave
DashboardEnvs ==
    [read : BOOLEAN,
     clear : {OkScript, FailScript},
     header : {OkScript, RetryScript, FailScript},
     format : {OkScript, FailScript},
     row : {OkScript, RetryScript, FailScript}]

InitDashboard ==
    /\ StoreIdle
    /\ target_sheet = <<>>
    /\ MAX_PROFILES_PER_RUN = 0
    /\ targets = <<>>
    /\ dashboard_sheet \in InitialDashboards
    /\ metrics \in MetricsOfRun
    /\ last_call = "none"
    /\ read_ok = TRUE
    /\ SuIdle

\* update_dashboard(metrics)
UpdateDashboard ==
    /\ last_call = "none"
    /\ \E env \in DashboardEnvs :
        \E r \in {update_dashboard(dashboard_sheet, metrics, env)} :
           /\ dashboard_sheet' = r.sheet
           /\ ops' = r.ops
           /\ read_ok' = env.read
    /\ last_call' = "update_dashboard"
    /\ UNCHANGED <<profiles_sheet, log_sheet, tags_sheet, tags_mapping, existing_profiles,
                   ready, ncalls, arg, arg_after, result>>
    /\ UNCHANGED <<target_sheet, MAX_PROFILES_PER_RUN, targets, metrics>>
    /\ UNCHANGED su_vars

NextDashboard == UpdateDashboard

SpecDashboard == InitDashboard /\ [][NextDashboard]_vars

-----------------------------------------------------------------------------
(* Properties of write_profile *)

\* this step is a call of write_profile
IsCall == ncalls' = ncalls + 1

\* the trimmed nickname and the identity of a record
Nick(d) == strip(Get(d, "NICK NAME", ""))

Identity(d) == lower(Nick(d))

\* the row the call projects from record d: its fields and its resolved tags
Projected(d) ==
    row_values_of(("TAGS" :> get_tags_for_nickname(tags_mapping, Nick(d))) @@ d)

\* the cell of column i in the snapshot the index stores for identity id;
\* an absent cell is the empty string
StoredCell(id, i) ==
    IF i <= Len(existing_profiles[id].data) THEN existing_profiles[id].data[i] ELSE ""

\* the columns in which the projected row of d differs from the stored snapshot
DiffColumns(d) == {i \in 1..NCols : StoredCell(Identity(d), i) /= Projected(d)[i]}

\* the names of the columns of S, in canonical order
RECURSIVE FieldsFrom(_, _)
FieldsFrom(S, i) ==
    IF i > NCols THEN <<>>
    ELSE (IF i \in S THEN <<COLUMN_ORDER[i]>> ELSE <<>>) \o FieldsFrom(S, i + 1)

\* the call is for a record with an identity the index does not hold
CallUnseen == IsCall /\ Nick(arg') /= "" /\ Identity(arg') \notin DOMAIN existing_profiles

\* the call is for a record with an identity the index holds
CallSeen == IsCall /\ Nick(arg') /= "" /\ Identity(arg') \in DOMAIN existing_profiles

\* the append of the projected row was issued in the last call and failed
AppendFailed(o) ==
    \E k \in 1..Len(o) :
        o[k].sheet = "Profiles" /\ o[k].op = "append_row" /\ ~o[k].ok

WriteOps == {"append_row", "update", "clear", "format"}

\* C1: for every record with a non-empty trimmed nickname whose identity is
\* not in the index, write_profile returns status "new" and changed_fields
\* equal to COLUMN_ORDER.
C1_NewForUnseenIdentity ==
    [][CallUnseen =>
         /\ result'.status = "new"
         /\ result'.changed_fields = COLUMN_ORDER]_vars

\* What holds of the code for C1: a call for an unseen identity either returns
\* "new" with the full schema or ends with the exception of the row-count read.
C1_NewOrRaised ==
    [][CallUnseen =>
         \/ result'.status = "new" /\ result'.changed_fields = COLUMN_ORDER
         \/ result' = Raised /\ \E k \in 1..Len(ops') :
                                   ops'[k].op = "get_all_values" /\ ~ops'[k].ok]_vars

\* C2 as stated: for every record whose projected row equals the stored
\* snapshot column by column, write_profile returns "unchanged" with empty
\* changed_fields and issues no remote write at all during the call.
C2_NoRemoteWrite ==
    [][(CallSeen /\ DiffColumns(arg') = {}) =>
         /\ result'.status = "unchanged"
         /\ result'.changed_fields = <<>>
         /\ \A k \in 1..Len(ops') : ops'[k].op \notin WriteOps]_vars

\* C2 amended: for every record whose projected row equals the stored
\* snapshot column by column, write_profile returns "unchanged" with empty
\* changed_fields, leaves the Profiles table and the index as they were, and
\* its only remote operation is one append, through safe_update, of an
\* UNCHANGED row to the Log table.
C2_UnchangedWritesOnlyLog ==
    [][(CallSeen /\ DiffColumns(arg') = {}) =>
         /\ result'.status = "unchanged"
         /\ result'.changed_fields = <<>>
         /\ profiles_sheet' = profiles_sheet
         /\ existing_profiles' = existing_profiles
         /\ Len(ops') = 1
         /\ ops'[1].sheet = "Log" /\ ops'[1].op = "append_row"
         /\ ops'[1].via = "safe_update"
         /\ log_sheet' = IF ops'[1].ok
                         THEN Append(log_sheet, <<Nick(arg'), "UNCHANGED", "-">>)
                         ELSE log_sheet]_vars

\* C2 witness: a call returned "unchanged" and its log append took effect.
C2_Witness ==
    /\ result.status = "unchanged"
    /\ Len(ops) = 1 /\ ops[1].ok
    /\ log_sheet[Len(log_sheet)] = <<Nick(arg), "UNCHANGED", "-">>

\* C3: for every record whose projected row differs from the stored snapshot
\* in a non-empty set S of columns, write_profile returns "updated" and
\* changed_fields is exactly the columns of S in canonical order.
C3_UpdatedListsExactlyS ==
    [][(CallSeen /\ DiffColumns(arg') /= {}) =>
         /\ result'.status = "updated"
         /\ result'.changed_fields = FieldsFrom(DiffColumns(arg'), 1)]_vars

\* What holds of the code for C3: such a call returns "updated" with exactly
\* the columns of S, or ends with the exception of the row-count read.
C3_UpdatedOrRaised ==
    [][(CallSeen /\ DiffColumns(arg') /= {}) =>
         \/ /\ result'.status = "updated"
            /\ result'.changed_fields = FieldsFrom(DiffColumns(arg'), 1)
         \/ result' = Raised]_vars

\* C4: two calls in a row with an identical record for a previously unseen
\* identity yield "new" on the first call and "unchanged" on the second, and
\* the second call appends no row to the Profiles table.  (The identity was
\* unseen before the first call exactly when that call returned "new" or left
\* the identity out of the index.)
C4_NewThenUnchanged ==
    [][(IsCall /\ ncalls >= 1 /\ arg' = arg /\ Nick(arg) /= ""
          /\ (result.status = "new" \/ Identity(arg) \notin DOMAIN existing_profiles)) =>
         /\ result.status = "new"
         /\ result'.status = "unchanged"
         /\ Len(profiles_sheet') = Len(profiles_sheet)]_vars

\* What holds of the code for C4: when the first call returned "new", the
\* second returns "unchanged" and appends no row.
C4_AfterNewUnchanged ==
    [][(IsCall /\ ncalls >= 1 /\ arg' = arg /\ result.status = "new") =>
         /\ result'.status = "unchanged"
         /\ profiles_sheet' = profiles_sheet]_vars

\* C5: append-only history: every row present in the Profiles table before a
\* write_profile call keeps its position and its cell contents after the call,
\* also when remote operations fail.
C5_AppendOnly ==
    [][IsCall =>
         /\ Len(profiles_sheet') >= Len(profiles_sheet)
         /\ \A r \in 1..Len(profiles_sheet) : profiles_sheet'[r] = profiles_sheet[r]]_vars

\* What holds of the code for C5: old rows are kept whenever the append of the
\* call took effect.
C5_AppendOnlyWhenAppended ==
    [][(IsCall /\ ~AppendFailed(ops')) =>
         /\ Len(profiles_sheet') >= Len(profiles_sheet)
         /\ \A r \in 1..Len(profiles_sheet) : profiles_sheet'[r] = profiles_sheet[r]]_vars

\* C6: if the append of the projected row fails, the index after the call is
\* the index before the call.
C6_FailedAppendKeepsIndex ==
    [][(IsCall /\ AppendFailed(ops')) => existing_profiles' = existing_profiles]_vars

\* C7: if the append of the projected row fails, write_profile returns status
\* "error", never "new" or "updated".
C7_FailedAppendIsError ==
    [][(IsCall /\ AppendFailed(ops')) => result'.status = "error"]_vars

\* C8: whatever remote operation fails during write_profile, the call returns
\* a result to its caller without raising.
C8_NeverRaises == result.status /= "raised"

\* the rows the index points at
IndexRows(index) == {index[k].row : k \in DOMAIN index}

C11_SeenNeverNew ==
    /\ [](\A k \in DOMAIN existing_profiles : lower(strip(k)) = k)
    /\ [][CallSeen => result'.status /= "new"]_vars
    /\ [][(IsCall /\ Nick(arg') /= "" /\ result' /= Raised)
          => Identity(arg') \in DOMAIN existing_profiles']_vars

\* the nickname values that are empty or whitespace-only
BlankNicks == {"", " "}

\* the record has no usable nickname: the key is absent, or its value is blank
NoNickname(d) == "NICK NAME" \notin DOMAIN d \/ d["NICK NAME"] \in BlankNicks

\* C12: for every record whose nickname is absent, empty or whitespace-only,
\* write_profile returns an error result with empty changed_fields and issues
\* no remote operation: Profiles, Log and the index are unchanged.
C12_MissingNicknameIsError ==
    [][(IsCall /\ NoNickname(arg')) =>
         /\ result'.status = "error"
         /\ result'.changed_fields = <<>>
         /\ ops' = <<>>
         /\ profiles_sheet' = profiles_sheet
         /\ log_sheet' = log_sheet
         /\ existing_profiles' = existing_profiles]_vars

\* C12 witness: a call with a whitespace-only nickname returned the error
\* result.
C12_Witness ==
    /\ ncalls >= 1
    /\ "NICK NAME" \in DOMAIN arg /\ arg["NICK NAME"] = " "
    /\ result.status = "error"
    /\ ops = <<>>

\* C13: row positions are never reused: two distinct identities of the index
\* have distinct row positions, and a row position that write_profile stores is
\* greater than every row position stored before it.
C13_RowsNeverReused ==
    /\ [](\A k1, k2 \in DOMAIN existing_profiles :
            k1 /= k2 => existing_profiles[k1].row /= existing_profiles[k2].row)
    /\ [][(IsCall /\ existing_profiles' /= existing_profiles)
          => \A n \in IndexRows(existing_profiles) :
                existing_profiles'[Identity(arg')].row > n]_vars

\* What holds of the code for C13: a call whose append took effect stores a
\* row position greater than every position in the index.
C13_FreshRowWhenAppended ==
    [][(IsCall /\ existing_profiles' /= existing_profiles /\ ~AppendFailed(ops'))
       => \A n \in IndexRows(existing_profiles) :
             existing_profiles'[Identity(arg')].row > n]_vars

\* the change kind of a status
KindOf(status) ==
    CASE status = "new" -> "NEW"
      [] status = "updated" -> "UPDATED"
      [] status = "unchanged" -> "UNCHANGED"
      [] OTHER -> "?"

\* the text of a changed-field list in a Log row
RECURSIVE FieldsText(_)
FieldsText(fields) ==
    IF fields = <<>> THEN "-"
    ELSE IF Len(fields) = 1 THEN fields[1]
    ELSE fields[1] \o ", " \o FieldsText(Tail(fields))

\* the Log row that matches the result of a call for record d
LogRowFor(d, res) == <<Nick(d), KindOf(res.status), FieldsText(res.changed_fields)>>

\* the log append of the call took effect
Logged(o) == \E k \in 1..Len(o) : o[k].sheet = "Log" /\ o[k].op = "append_row" /\ o[k].ok

\* C16: every call that reconciles a record appends exactly one row
\* to the Log table, whose kind and changed-field list match the result;
\* earlier Log rows are never altered.
C16_ExactlyOneLogRow ==
    [][(IsCall /\ Nick(arg') /= "") =>
         log_sheet' = Append(log_sheet, LogRowFor(arg', result'))]_vars

\* What holds of the code for C16: a call that reconciles a record appends at
\* most one row to the Log table and never alters earlier rows: exactly one
\* row when its log append takes effect, whose kind matches the returned
\* status and whose fields text is the ", "-joined changed_fields ("-" when
\* empty); no row when the log append fails or the call ends before it.
C16_OneLogRowWhenLogged ==
    [][(IsCall /\ Nick(arg') /= "") =>
         IF Logged(ops')
         THEN /\ log_sheet' = Append(log_sheet, LogRowFor(arg', result'))
              /\ result'.status \in {"new", "updated", "unchanged"}
         ELSE log_sheet' = log_sheet]_vars

\* C17 as stated: write_profile does not mutate the record passed to it.
C17_RecordNotMutated == [][IsCall => arg_after' = arg']_vars

\* C17 amended: write_profile changes the record passed to it only by setting
\* its TAGS key to the tag string resolved for the identity (for a non-empty
\* nickname); every other key and value is as before, and a record with no
\* nickname is not changed at all.
C17_OnlyTagsSet ==
    [][IsCall =>
         arg_after' = IF Nick(arg') = "" THEN arg'
                      ELSE ("TAGS" :> Get(tags_mapping, Identity(arg'), "")) @@ arg']_vars

\* C17 witness: a call has set TAGS of its record to the tags of the identity.
C17_Witness ==
    /\ ncalls >= 1
    /\ "TAGS" \notin DOMAIN arg
    /\ "TAGS" \in DOMAIN arg_after
    /\ arg_after["TAGS"] = "VIP, Flagged"

\* C18: every write operation issued to the remote store goes through
\* safe_update.
C18_AllWritesThroughSafeUpdate ==
    \A k \in 1..Len(ops) : ops[k].op \in WriteOps => ops[k].via = "safe_update"

\* What holds of the code for C18: the writes of write_profile and of the
\* helpers it calls go through safe_update.
C18_WriteProfileThroughSafeUpdate ==
    ncalls >= 1 =>
        \A k \in 1..Len(ops) : ops[k].op \in WriteOps => ops[k].via = "safe_update"

-----------------------------------------------------------------------------
(* Properties of the Tag Resolver *)

\* ", ".join of a list, the empty string for the empty list
CommaJoin(seq) == IF seq = <<>> THEN "" ELSE FieldsText(seq)

\* the identities looked up, one of them in no Tags worksheet of the model
TagIdentities == {"bob", "amy", "zed"}

\* identity id appears in column c of the table V, below the header
AppearsUnder(V, id, c) ==
    \E r \in 2..Len(V) : c <= Len(V[r]) /\ lower(strip(V[r][c])) = id

\* the names of the named columns under which id appears, left to right
RECURSIVE TagsByColumn(_, _, _)
TagsByColumn(V, id, c) ==
    IF V = <<>> \/ c > Len(V[1]) THEN <<>>
    ELSE (IF strip(V[1][c]) /= "" /\ AppearsUnder(V, id, c)
          THEN <<strip(V[1][c])>> ELSE <<>>)
         \o TagsByColumn(V, id, c + 1)

\* one tag name for every cell holding id in a named column, columns left to
\* right and the cells of a column top to bottom
RECURSIVE TagsByCell(_, _, _, _)
TagsByCell(V, id, c, r) ==
    IF V = <<>> \/ c > Len(V[1]) THEN <<>>
    ELSE IF r > Len(V) THEN TagsByCell(V, id, c + 1, 2)
    ELSE (IF strip(V[1][c]) /= "" /\ c <= Len(V[r]) /\ lower(strip(V[r][c])) = id
          THEN <<strip(V[1][c])>> ELSE <<>>)
         \o TagsByCell(V, id, c, r + 1)

\* C15: after load_tags_mapping on a tag table the tag string of every
\* identity is the ", "-joined list of the tag names of the columns under
\* which the identity appears, in left-to-right column order; lookup of an
\* absent identity yields the empty string.
C15_TagsOfColumns ==
    last_call = "load_tags_mapping" =>
        \A id \in TagIdentities :
            get_tags_for_nickname(tags_mapping, id)
                = CommaJoin(TagsByColumn(get_all_values(tags_sheet), id, 1))

\* C15 with the read of the table succeeding: the divergence that is left is
\* the identity that appears in two cells of one column.
C15_TagsOfColumnsWhenRead ==
    (last_call = "load_tags_mapping" /\ read_ok) =>
        \A id \in TagIdentities :
            get_tags_for_nickname(tags_mapping, id)
                = CommaJoin(TagsByColumn(get_all_values(tags_sheet), id, 1))

\* C15 amended: after load_tags_mapping has read a tag table, the tag string of
\* every identity is the ", "-joined list holding one tag name for every
\* non-empty cell of the identity in a column with a non-blank name, columns
\* left to right and cells top to bottom; a table of fewer than two rows, or a
\* failed read, leaves the mapping empty; an absent identity looks up as "".
C15_TagsOfCells ==
    last_call = "load_tags_mapping" =>
        \A id \in TagIdentities :
            get_tags_for_nickname(tags_mapping, id)
                = IF read_ok
                  THEN CommaJoin(TagsByCell(get_all_values(tags_sheet), id, 1, 2))
                  ELSE ""

\* C15 witness: an identity under the columns "VIP" and "Flagged" resolves to
\* "VIP, Flagged", and an absent identity to "".
C15_Witness ==
    /\ last_call = "load_tags_mapping"
    /\ read_ok
    /\ Len(tags_sheet) = 2
    /\ tags_sheet[1] = <<"VIP", "Flagged">>
    /\ tags_sheet[2] = <<"Bob ", "bob">>
    /\ get_tags_for_nickname(tags_mapping, "Bob") = "VIP, Flagged"
    /\ get_tags_for_nickname(tags_mapping, "zed") = ""

-----------------------------------------------------------------------------
(* Properties of the Existing-Record Index build *)

\* the identity carried by row p of the values V read from the Profiles
\* table, "" when the row has fewer than two cells
IdentityAt(V, p) == IF Len(V[p]) >= 2 THEN lower(strip(V[p][2])) ELSE ""

\* the identities found below the header
IdentitiesIn(V) == {IdentityAt(V, p) : p \in 2..Len(V)} \ {""}

\* the position of the last row carrying identity id
LastRowOf(V, id) == Max({p \in 2..Len(V) : IdentityAt(V, p) = id})

\* the index that holds, for every identity found, its last row
LastRowIndex(V) ==
    /\ DOMAIN existing_profiles = IdentitiesIn(V)
    /\ \A id \in IdentitiesIn(V) :
          existing_profiles[id] = [row |-> LastRowOf(V, id), data |-> V[LastRowOf(V, id)]]

\* C20: load_existing_profiles maps each non-empty trimmed, lower-cased
\* nickname (second column) found below the header of the Profiles table to
\* the 1-based sheet position and the cells of the last row carrying that
\* identity; rows with an empty nickname or fewer than two cells are skipped
\* and no other identity is in the index.
C20_LastRowWins ==
    last_call = "load_existing_profiles" =>
        LastRowIndex(get_all_values(profiles_sheet))

\* C20 amended: the same when the read of the Profiles table succeeds; when
\* the read fails the index is left empty.
C20_LastRowWinsWhenRead ==
    last_call = "load_existing_profiles" =>
        IF read_ok THEN LastRowIndex(get_all_values(profiles_sheet))
        ELSE existing_profiles = EmptyMap

\* C20 witness: two rows carry one identity in two spellings, after a row of
\* another identity; the index holds the later of the two.
C20_Witness ==
    /\ last_call = "load_existing_profiles"
    /\ read_ok
    /\ Len(profiles_sheet) = 4
    /\ profiles_sheet[2] = <<"", "amy">>
    /\ profiles_sheet[3] = <<"", "Bob ", "", "lhr">>
    /\ profiles_sheet[4] = <<"", "bob", "", "khi">>
    /\ existing_profiles["bob"].row = 4
    /\ existing_profiles["amy"].row = 2

-----------------------------------------------------------------------------
(* Cache coherence of the Existing-Record Index *)

\* every remote operation of the last call (of setup, or of write_profile)
\* succeeded
AllSucceeded(o) == \A k \in 1..Len(o) : o[k].ok

\* the index held in the process agrees with the Profiles table: it has the
\* identities, and for each identity the row position, of the index that
\* load_existing_profiles would rebuild from the table now, and each position
\* is the last table row carrying the identity
Coherent(sheet, index) ==
    LET V == get_all_values(sheet)
        rebuilt == load_existing_profiles(V)
    IN /\ DOMAIN index = DOMAIN rebuilt
       /\ \A id \in DOMAIN index :
            /\ index[id].row = rebuilt[id].row
            /\ index[id].row = LastRowOf(V, id)

\* C21: starting from an index built by load_existing_profiles, after any
\* sequence of write_profile calls in which every remote operation succeeds,
\* the index has the same identities and the same identity-to-row mapping as
\* the index load_existing_profiles would rebuild from the Profiles table at
\* that moment, and each indexed position is the last table row carrying that
\* identity: the index is coherent once setup has built it, and every
\* write_profile call whose remote operations all succeed keeps it coherent.
C21_CacheCoherent ==
    /\ []((ready /\ ncalls = 0 /\ AllSucceeded(ops))
            => Coherent(profiles_sheet, existing_profiles))
    /\ [][(IsCall /\ Coherent(profiles_sheet, existing_profiles) /\ AllSucceeded(ops'))
          => Coherent(profiles_sheet', existing_profiles')]_vars

\* C21 witness: after a NEW and an UPDATED call whose operations all
\* succeeded, the index points the identity at the later of its two rows.
C21_Witness ==
    /\ ncalls = 2
    /\ result.status = "updated"
    /\ AllSucceeded(ops)
    /\ Len(profiles_sheet) = 3
    /\ Coherent(profiles_sheet, existing_profiles)
    /\ existing_profiles["bob"].row = 3
    /\ IdentityAt(get_all_values(profiles_sheet), 2) = "bob"

-----------------------------------------------------------------------------
(* Properties of Target Selection *)

\* the positions of the work-queue rows with a non-empty nickname and a
\* pending status
EligibleRows(V) ==
    {p \in 2..Len(V) :
        /\ Len(V[p]) >= 2
        /\ strip(V[p][1]) /= ""
        /\ lower(strip(V[p][2])) \in {"pending", "pending [!]"}}

\* the returned list is the first rows of the eligible ones, in ascending
\* order, cut at a positive cap
FirstEligible(V, cap, out) ==
    LET E == EligibleRows(V)
    IN /\ \A i \in 1..Len(out) :
            out[i].row \in E /\ out[i].nickname = strip(V[out[i].row][1])
       /\ \A i, j \in 1..Len(out) : i < j => out[i].row < out[j].row
       /\ Len(out) = IF cap > 0 /\ cap < Cardinality(E) THEN cap ELSE Cardinality(E)
       /\ \A i \in 1..Len(out) : \A p \in E :
            p < out[i].row => \E j \in 1..Len(out) : out[j].row = p

\* C14: get_target_nicknames returns only work-queue rows with a non-empty
\* nickname and a pending status, in strictly ascending row position: the
\* first cap eligible rows when the cap is positive, all eligible rows when
\* the cap is 0 or negative.
C14_FirstEligibleRows ==
    last_call = "get_target_nicknames" =>
        FirstEligible(get_all_values(target_sheet), MAX_PROFILES_PER_RUN, targets)

\* C14 amended: the same when the read of the work queue succeeds; when the
\* read fails get_target_nicknames returns the empty list.
C14_FirstEligibleRowsWhenRead ==
    last_call = "get_target_nicknames" =>
        IF read_ok
        THEN FirstEligible(get_all_values(target_sheet), MAX_PROFILES_PER_RUN, targets)
        ELSE targets = <<>>

\* C14 witness: three eligible rows and a cap of 2: the first two are
\* returned.
C14_Witness ==
    /\ last_call = "get_target_nicknames"
    /\ read_ok
    /\ MAX_PROFILES_PER_RUN = 2
    /\ Cardinality(EligibleRows(get_all_values(target_sheet))) = 3
    /\ Len(targets) = 2
    /\ targets[1].row = 2
    /\ targets[2].row = 3

\* C14 witness of the unlimited case: a cap of 0 returns all three.
C14_WitnessUnlimited ==
    /\ last_call = "get_target_nicknames"
    /\ read_ok
    /\ MAX_PROFILES_PER_RUN = 0
    /\ Len(targets) = 3

-----------------------------------------------------------------------------
(* Properties of the Run Metrics Aggregator *)

\* the fixed header of the Dashboard table
DashboardHeader ==
    <<"Run#", "Timestamp", "Profiles", "Success", "Failed", "New", "Updated", "Unchanged">>

\* the metric of every Dashboard column and what the column holds without it
MetricKeys ==
    <<"Run Number", "Last Run", "Profiles Processed", "Success", "Failed",
      "New Profiles", "Updated Profiles", "Unchanged Profiles">>

MetricDefaults == <<"", "", "0", "0", "0", "0", "0", "0">>

\* the row holding the counts of the run
RunRow(m) ==
    [i \in 1..Len(MetricKeys) |->
        IF MetricKeys[i] \in DOMAIN m THEN m[MetricKeys[i]] ELSE MetricDefaults[i]]

\* the step is a call of update_dashboard in which every remote operation
\* succeeded
DashboardCallAllOk ==
    /\ last_call = "none"
    /\ last_call' = "update_dashboard"
    /\ \A k \in 1..Len(ops') : ops'[k].ok

\* the first row that a read of the table shows is the fixed header
HeaderMatched(sheet) ==
    get_all_values(sheet) /= <<>> /\ get_all_values(sheet)[1] = DashboardHeader

\* C19: update_dashboard, when its remote operations succeed, leaves the
\* Dashboard table with the fixed header as its first row and appends exactly
\* one row holding the run's counts: if the header already matched, all
\* earlier rows are preserved and the row count grows by one; if the table was
\* empty or the header did not match, the table ends as exactly the header
\* followed by the one new row.
C19_HeaderThenOneRow ==
    [][DashboardCallAllOk =>
         /\ dashboard_sheet'[1] = DashboardHeader
         /\ IF HeaderMatched(dashboard_sheet)
            THEN /\ dashboard_sheet' = Append(dashboard_sheet, RunRow(metrics))
                 /\ Len(dashboard_sheet') = Len(dashboard_sheet) + 1
            ELSE dashboard_sheet' = <<DashboardHeader, RunRow(metrics)>>]_vars

\* C19 witness: the header matched, and the row of the run follows the row of
\* the earlier run.
C19_Witness ==
    /\ last_call = "update_dashboard"
    /\ \A k \in 1..Len(ops) : ops[k].ok
    /\ Len(dashboard_sheet) = 3
    /\ dashboard_sheet[1] = DashboardHeader
    /\ dashboard_sheet[2] = <<"1", "t1", "2", "2", "0", "1", "1", "0">>
    /\ dashboard_sheet[3] = RunRow(metrics)

\* C19 witness of the other case: a sheet of another layout was cleared and
\* ends as the header and the row of the run.
C19_WitnessCleared ==
    /\ last_call = "update_dashboard"
    /\ Len(ops) = 5
    /\ \A k \in 1..Len(ops) : ops[k].ok
    /\ dashboard_sheet = <<DashboardHeader, RunRow(metrics)>>

-----------------------------------------------------------------------------
(* Properties of safe_update *)

\* func fails with a quota/429 signature twice, then succeeds
QuotaTwiceThenOk ==
    /\ RateLimited(su_script[1])
    /\ RateLimited(su_script[2])
    /\ su_script[3] = "ok"

\* func fails at every invocation
AlwaysFails == \A i \in 1..max_retries : su_script[i] /= "ok"

\* C9: given an operation that fails with a quota/429 signature on its first
\* two invocations and succeeds on the third, safe_update invokes it exactly
\* three times and returns the third invocation's result after exactly two
\* backoff sleeps, of 5 then 10 seconds.
C9_TwoBackoffsThenResult ==
    (su_pc = "done" /\ QuotaTwiceThenOk) =>
        /\ su_calls = 3
        /\ su_result = [none |-> FALSE, invocation |-> 3]
        /\ su_backoffs = <<5, 10>>

\* C9 witness: such a run of safe_update has returned.
C9_Witness ==
    /\ su_pc = "done"
    /\ QuotaTwiceThenOk
    /\ su_calls = 3
    /\ Len(su_backoffs) = 2

\* C10: for an operation that fails at every invocation, with any mix of
\* rate-limited and other failures, safe_update terminates, having invoked the
\* operation exactly max_retries times, and returns None.
C10_AlwaysFailingReturnsNone ==
    /\ [](AlwaysFails /\ su_pc = "done" =>
            su_calls = max_retries /\ su_result = NoResult)
    /\ (AlwaysFails ~> su_pc = "done")

\* C10 witness: a run with both kinds of failure has returned None after
\* max_retries invocations.
C10_Witness ==
    /\ su_pc = "done"
    /\ AlwaysFails
    /\ \E i, j \in 1..max_retries : RateLimited(su_script[i]) /\ ~RateLimited(su_script[j])
    /\ su_calls = max_retries
    /\ su_result = NoResult

====
